---- MODULE Spec2Model ----
(***************************************************************************)
(* Model of skillcapped.py: the segmented-download pipeline                *)
(* (download_segment_async, download_all_segments, download_video_async)   *)
(* and the loop of main that feeds it.                                     *)
(*                                                                         *)
(* Strings are sequences of one-character strings, so that zfill, split,   *)
(* strip, replace and the substring test are computed as Python computes   *)
(* them.                                                                   *)
(***************************************************************************)
EXTENDS Integers, Sequences, FiniteSets, TLC

\* ------------------------------------------------------------------ bounds
\* Chunk indices above MaxChunks never answer 200: every stream is finite.
MaxChunks == 3
\* download_all_segments(video_id, batch_size, max_concurrent) is modelled
\* for every batch_size in 1..MaxBatchSize and max_concurrent in
\* 1..MaxConcurrent (the defaults 20 and 50 of the code are tunables).
MaxBatchSize == 2
MaxConcurrent == 2

\* ----------------------------------------------------------- Python strings
None == <<"None">>

DigitChars == <<"0", "1", "2", "3", "4", "5", "6", "7", "8", "9">>

\* str(n) for n >= 0
RECURSIVE Str(_)
Str(n) ==
    IF n < 10 THEN <<DigitChars[n + 1]>>
    ELSE Str(n \div 10) \o <<DigitChars[(n % 10) + 1]>>

\* s.zfill(width)
RECURSIVE zfill(_, _)
zfill(s, width) ==
    IF Len(s) >= width THEN s ELSE zfill(<<"0">> \o s, width)

\* s.split(sep)[-1] for a one-character separator
RECURSIVE SplitLast(_, _)
SplitLast(s, sep) ==
    IF s = <<>> THEN <<>>
    ELSE IF s[Len(s)] = sep THEN <<>>
    ELSE SplitLast(SubSeq(s, 1, Len(s) - 1), sep) \o <<s[Len(s)]>>

\* s.split(sep): the list of fields
RECURSIVE Split(_, _)
Split(s, sep) ==
    IF \E i \in 1..Len(s) : s[i] = sep
    THEN LET i == CHOOSE j \in 1..Len(s) :
                     s[j] = sep /\ \A k \in 1..(j - 1) : s[k] # sep
         IN  <<SubSeq(s, 1, i - 1)>> \o Split(SubSeq(s, i + 1, Len(s)), sep)
    ELSE <<s>>

IsSpace(c) == c \in {" ", "\n", "\t", "\r"}

\* s.strip()
RECURSIVE Strip(_)
Strip(s) ==
    IF s = <<>> THEN s
    ELSE IF IsSpace(s[1]) THEN Strip(Tail(s))
    ELSE IF IsSpace(s[Len(s)]) THEN Strip(SubSeq(s, 1, Len(s) - 1))
    ELSE s

\* sub in s
Contains(s, sub) ==
    \E i \in 1..(Len(s) - Len(sub) + 1) : SubSeq(s, i, i + Len(sub) - 1) = sub

\* s.replace(c, rep) for a one-character c
RECURSIVE Replace(_, _, _)
Replace(s, c, rep) ==
    IF s = <<>> THEN <<>>
    ELSE (IF s[1] = c THEN rep ELSE <<s[1]>>) \o Replace(Tail(s), c, rep)

\* os.path.join(a, b)
PathJoin(a, b) == a \o <<"/">> \o b

\* os.path.abspath(p) for a relative p: the working directory is prefixed
Cwd == <<"/", "w">>
abspath(p) == PathJoin(Cwd, p)

\* A file that exists already is taken as downloaded and not written again
Put_KeepExisting(d, p, c) ==
    [q \in (DOMAIN d) \cup {p} |->
        IF q = p /\ p \notin DOMAIN d THEN c ELSE d[q]]

\* open(file_name, 'ab'): the bytes are added to what the file holds
Put_Append(d, p, c) ==
    [q \in (DOMAIN d) \cup {p} |->
        IF q = p THEN (IF p \in DOMAIN d THEN d[p] \o c ELSE c) ELSE d[q]]

\* ------------------------------------------------------------------- disk
\* The filesystem: a function from paths to file contents.
Put(d, p, c) == [q \in (DOMAIN d) \cup {p} |-> IF q = p THEN c ELSE d[q]]
Remove(d, ps) == [q \in (DOMAIN d) \ ps |-> d[q]]
Exists(d, p) == p \in DOMAIN d
EmptyDisk == [q \in {} |-> <<>>]

\* ------------------------------------------------------------ the inputs
\* inputs.txt as f.readlines() returns it, either
\*   "c,u/k\n"              folder c, collection page u/k
\*   "\n"                   a blank line
\* or
\*   "u/commentaries/m\n"   a commentary page, no folder given
\*   "d:,u/commentaries/n\n" folder d:, a commentary page
CommentariesUrl(last) ==
    <<"u", "/", "c", "o", "m", "m", "e", "n", "t", "a", "r", "i", "e", "s",
      "/", last>>

CourseInput ==
    << <<"c", ",", "u", "/", "k", "\n">>,
       <<"\n">> >>

CommentaryInput ==
    << CommentariesUrl("m") \o <<"\n">>,
       <<"d", ":", ",">> \o CommentariesUrl("n") \o <<"\n">> >>

Inputs == {CourseInput, CommentaryInput}

\* What the rendered page of a collection URL holds: the ids of the divs
\* matching VIDEO_IDS_DIV_ID_PREFIX and the texts of the title divs.
VIDEO_IDS_DIV_ID_PREFIX == <<"B", "r", "V", "i", "d", "R", "o", "w", "-">>
PageRows(url) ==
    << VIDEO_IDS_DIV_ID_PREFIX \o <<"a">>, VIDEO_IDS_DIV_ID_PREFIX \o <<"b">> >>
PageTitles(url) == << <<"x", ":", "y">>, <<"z">> >>

\* --------------------------------------------------------- A. ensure_ffmpeg
\* installed: is_ffmpeg_installed(); installOk: install_ffmpeg();
\* verifyOk: the verifying "ffmpeg -version" run does not raise.
ensure_ffmpeg(installed, installOk, verifyOk) ==
    IF ~installed /\ ~installOk THEN FALSE ELSE verifyOk

\* ---------------------------------------------- B. download_segment_async
piece_number(segment_number) == zfill(Str(segment_number), 5)

SegmentUrl(video_id, segment_number) ==
    <<"https://d13z5uuzt1wkbz.cloudfront.net/">> \o video_id
        \o <<"/", "HIDDEN4500-">> \o piece_number(segment_number) \o <<".ts">>

file_name(video_id, segment_number) ==
    <<"HIDDEN4500-">> \o piece_number(segment_number) \o <<".ts">>

\* The bytes the CDN serves at a URL, and what a write cut short leaves.
Body(url) == <<"bytes">> \o url
Partial(url) == <<"partial">> \o url

\* How a fetch can end: the status is 200 and the file is written ("ok"),
\* the status is not 200 ("missing"), session.get/resp.read raises
\* ("errored"), or open/write raises ("ioerror").
Outcomes(segment_number) ==
    IF segment_number <= MaxChunks
    THEN {"ok", "missing", "errored", "ioerror"}
    ELSE {"missing", "errored"}

\* The except branch of the request returning the path instead of None
SegmentResult_ErrorAsPath(video_id, segment_number, outcome) ==
    IF outcome \in {"ok", "errored"}
    THEN file_name(video_id, segment_number) ELSE None

\* The value download_segment_async returns.
SegmentResult(video_id, segment_number, outcome) ==
    IF outcome = "ok" THEN file_name(video_id, segment_number) ELSE None

\* range(segment, segment + batch_size + 1): one index too many
BatchRange_Wide(segment, batch_size) == segment..(segment + batch_size)

\* ----------------------------------------------- B. download_all_segments
BatchRange(segment, batch_size) == segment..(segment + batch_size - 1)

\* The for loop over the results of one batch: the paths appended before
\* the first None.
RECURSIVE Walk(_)
Walk(results) ==
    IF results = <<>> THEN <<>>
    ELSE IF Head(results) = None THEN <<>>
    ELSE <<Head(results)>> \o Walk(Tail(results))

\* stop never set: the while loop is not left
Stop_Never(results) == FALSE

\* stop is set when the loop met a None.
Stop(results) == \E i \in 1..Len(results) : results[i] = None

\* The cursor advanced once more than paths were appended
NextSegment_Skip(segment, accepted) == segment + Len(accepted) + 1

\* segment += 1 for every appended path.
NextSegment(segment, accepted) == segment + Len(accepted)

\* ------------------------------------------------ C. download_video_async
\* The check for an empty result left out
ShouldAbort_Never(segment_files) == FALSE

\* if not segment_files: return
ShouldAbort(segment_files) == segment_files = <<>>

\* The title used as it is
safe_title_Raw(video_title) == video_title

safe_title(video_title) == Replace(video_title, ":", <<" ", "-", " ">>)

output_file(video_title, folder_name) ==
    PathJoin(folder_name, safe_title(video_title) \o <<".ts">>)

list_file == <<"segments.txt">>

\* The manifest written from the last segment to the first
ManifestContent_Reversed(segment_files) ==
    [i \in 1..Len(segment_files) |->
        <<"file '">>
            \o abspath(segment_files[Len(segment_files) + 1 - i])
            \o <<"'\n">>]

\* The lines written to segments.txt.
ManifestContent(segment_files) ==
    [i \in 1..Len(segment_files) |->
        <<"file '">> \o abspath(segment_files[i]) \o <<"'\n">>]

\* ffmpeg -f concat -c copy: the streams of the listed files, in order.
Concat(d, manifest) ==
    [i \in 1..Len(manifest) |->
        LET p == SubSeq(manifest[i], 2 + Len(Cwd) + 1, Len(manifest[i]) - 1)
        IN  IF Exists(d, p) THEN d[p] ELSE <<"absent">>]

\* ------------------------------------------------------ D. the page scrape
extract_ids(rows) == [i \in 1..Len(rows) |-> SplitLast(rows[i], "-")]

extract_titles(texts) ==
    [i \in 1..Len(texts) |-> Str(i) \o <<".", " ">> \o texts[i]]

Min(a, b) == IF a < b THEN a ELSE b

\* zip(video_ids, video_titles) with the folder of the line
Zip(video_ids, video_titles, folder_name) ==
    [i \in 1..Min(Len(video_ids), Len(video_titles)) |->
        [video_id |-> video_ids[i], video_title |-> video_titles[i],
         folder_name |-> folder_name]]

\* ------------------------------------------------------------- E. main
\* The return of line 252 left out
AfterEnsure_Continue(ok) == "input"

\* Where main goes after ensure_ffmpeg() returned ok.
AfterEnsure(ok) == IF ok THEN "input" ELSE "exit_no_ffmpeg"

\* An empty sequence or a failed remux raising out of sync_download_video
AfterJob_Raises(how) ==
    IF how \in {"no_content", "remux_failed"} THEN "done" ELSE "loop"

\* Where main goes when sync_download_video returns; how the Job ended
\* ("no_content", "remux_failed", "created") makes no difference.
AfterJob(how) == "loop"

HasComma(line) == \E i \in 1..Len(line) : line[i] = ","

LineFolder(line) ==
    IF HasComma(line) THEN Strip(Split(line, ",")[1])
    ELSE SplitLast(line, "/")

LineUrl(line) ==
    IF HasComma(line) THEN Strip(Split(line, ",")[2]) ELSE line

Commentaries == <<"c", "o", "m", "m", "e", "n", "t", "a", "r", "i", "e", "s">>
IsCommentary(url) == Contains(url, Commentaries)

\* ------------------------------------------------------------------ state
VARIABLES
    mainPc,          \* where main is: "start", "input", "loop", "job",
                     \*   "exit_no_ffmpeg", "exit_no_input", "done"
    ffmpegOk,        \* what ensure_ffmpeg() returned: "yes" or "no"
                     \*   ("unknown" before the call)
    lines,           \* the lines of inputs.txt
    lineIdx,         \* number of lines of inputs.txt main has taken
    dirs,            \* folders created by os.makedirs
    queue,           \* the (id, title) pairs of the current line still to do
    batch_size,      \* parameter of download_all_segments
    max_concurrent,  \* parameter of download_all_segments
    job,             \* arguments of the running download_video_async
    jobPc,           \* "idle", "gather", "sequenced", "ffmpeg", "cleanup"
    segment,         \* the cursor of download_all_segments
    segment_files,   \* the result list of download_all_segments
    tasks,           \* the fetches the Job has created, by index:
                     \*   "waiting" (for the semaphore), "inflight", or
                     \*   the outcome; those of BatchRange(segment,
                     \*   batch_size) are the batch being gathered
    completed,       \* the indices of the batch being gathered in the
                     \*   order in which their fetches completed, kept
                     \*   until download_all_segments has returned
    permits,         \* the value of the semaphore
    disk,            \* the filesystem
    catalog,         \* history: the (id, title) pairs main obtained
    startedJobs,     \* history: the Jobs started, in order
    endedHow,        \* history: how each ended Job ended
    remuxLog         \* history: the ffmpeg invocations

vars == <<mainPc, ffmpegOk, lines, lineIdx, dirs, queue, batch_size,
          max_concurrent,
          job, jobPc, segment, segment_files, tasks, completed, permits,
          disk, catalog, startedJobs, endedHow, remuxLog>>

mainVars == <<mainPc, ffmpegOk, lines, lineIdx, dirs, queue>>
paramVars == <<batch_size, max_concurrent>>
seqVars == <<segment, segment_files, tasks, completed, permits>>
histVars == <<catalog, startedJobs, endedHow, remuxLog>>

NoJob == [video_id |-> <<>>, video_title |-> <<>>, folder_name |-> <<>>]
NoTasks == [i \in {} |-> "waiting"]

Init ==
    /\ mainPc = "start"
    /\ ffmpegOk = "unknown"
    /\ lines \in Inputs
    /\ lineIdx = 0
    /\ dirs = {}
    /\ queue = <<>>
    /\ batch_size \in 1..MaxBatchSize
    /\ max_concurrent \in 1..MaxConcurrent
    /\ job = NoJob
    /\ jobPc = "idle"
    /\ segment = 1
    /\ segment_files = <<>>
    /\ tasks = NoTasks
    /\ completed = <<>>
    /\ permits = 0
    /\ disk = EmptyDisk
    /\ catalog = <<>>
    /\ startedJobs = <<>>
    /\ endedHow = <<>>
    /\ remuxLog = <<>>

\* ------------------------------------------------------------------- main
\* main, lines 250-252
EnsureFfmpeg ==
    /\ mainPc = "start"
    /\ \E installed \in BOOLEAN, installOk \in BOOLEAN, verifyOk \in BOOLEAN :
          LET ok == ensure_ffmpeg(installed, installOk, verifyOk)
          IN  /\ ffmpegOk' = IF ok THEN "yes" ELSE "no"
              /\ mainPc' = AfterEnsure(ok)
    /\ UNCHANGED <<lines, lineIdx, dirs, queue, paramVars, job, jobPc,
                   seqVars, disk, histVars>>

\* main, lines 254-260
OpenInput ==
    /\ mainPc = "input"
    /\ \E exists \in BOOLEAN :
          mainPc' = IF exists THEN "loop" ELSE "exit_no_input"
    /\ UNCHANGED <<ffmpegOk, lines, lineIdx, dirs, queue, paramVars, job,
                   jobPc, seqVars, disk, histVars>>

AtLine ==
    /\ mainPc = "loop"
    /\ queue = <<>>
    /\ lineIdx < Len(lines)

CurLine == Strip(lines[lineIdx + 1])

\* main, lines 263-265
SkipBlankLine ==
    /\ AtLine
    /\ CurLine = <<>>
    /\ lineIdx' = lineIdx + 1
    /\ UNCHANGED <<mainPc, ffmpegOk, lines, dirs, queue, paramVars, job, jobPc,
                   seqVars, disk, histVars>>

\* main, lines 266-287: a collection page; fetch_dynamic_url returns None
\* when the page did not load.
LoadCollection ==
    /\ AtLine
    /\ CurLine # <<>>
    /\ ~IsCommentary(LineUrl(CurLine))
    /\ lineIdx' = lineIdx + 1
    /\ dirs' = dirs \cup {LineFolder(CurLine)}
    /\ \E loaded \in BOOLEAN :
          queue' = IF loaded
                   THEN Zip(extract_ids(PageRows(LineUrl(CurLine))),
                            extract_titles(PageTitles(LineUrl(CurLine))),
                            LineFolder(CurLine))
                   ELSE <<>>
    /\ catalog' = catalog \o queue'
    /\ UNCHANGED <<mainPc, ffmpegOk, lines, paramVars, job, jobPc, seqVars,
                   disk, startedJobs, endedHow, remuxLog>>

\* main, lines 266-276 and 288-291: a commentary page
LoadCommentary ==
    /\ AtLine
    /\ CurLine # <<>>
    /\ IsCommentary(LineUrl(CurLine))
    /\ lineIdx' = lineIdx + 1
    /\ dirs' = dirs \cup {LineFolder(CurLine)}
    /\ queue' = << [video_id |-> SplitLast(LineUrl(CurLine), "/"),
                    video_title |-> LineFolder(CurLine),
                    folder_name |-> LineFolder(CurLine)] >>
    /\ catalog' = catalog \o queue'
    /\ UNCHANGED <<mainPc, ffmpegOk, lines, paramVars, job, jobPc, seqVars,
                   disk, startedJobs, endedHow, remuxLog>>

\* main, line 262: the loop over the lines is exhausted
Finish ==
    /\ mainPc = "loop"
    /\ queue = <<>>
    /\ lineIdx = Len(lines)
    /\ mainPc' = "done"
    /\ UNCHANGED <<ffmpegOk, lines, lineIdx, dirs, queue, paramVars, job,
                   jobPc, seqVars, disk, histVars>>

\* ------------------------------------------------------------------- Job
\* The list comprehension of lines 149-152: one fetch per index of the batch.
Dispatch(seg) ==
    [i \in (DOMAIN tasks) \cup BatchRange(seg, batch_size) |->
        IF i \in BatchRange(seg, batch_size) THEN "waiting" ELSE tasks[i]]

FirstDispatch == [i \in BatchRange(1, batch_size) |-> "waiting"]

\* The next Job started as a task, without waiting for the running one
StartJob_NoWait ==
    /\ mainPc \in {"loop", "job"}
    /\ queue # <<>>
    /\ mainPc' = "job"
    /\ job' = Head(queue)
    /\ queue' = Tail(queue)
    /\ jobPc' = "gather"
    /\ segment' = 1
    /\ segment_files' = <<>>
    /\ tasks' = FirstDispatch
    /\ completed' = <<>>
    /\ permits' = max_concurrent
    /\ startedJobs' = Append(startedJobs, Head(queue))
    /\ UNCHANGED <<ffmpegOk, lines, lineIdx, dirs, paramVars, disk, catalog,
                   endedHow, remuxLog>>

\* sync_download_video -> download_video_async -> download_all_segments up
\* to the first gather: lines 207, 171-172, 144-153
StartJob ==
    /\ mainPc = "loop"
    /\ queue # <<>>
    /\ mainPc' = "job"
    /\ job' = Head(queue)
    /\ queue' = Tail(queue)
    /\ jobPc' = "gather"
    /\ segment' = 1
    /\ segment_files' = <<>>
    /\ tasks' = FirstDispatch
    /\ completed' = <<>>
    /\ permits' = max_concurrent
    /\ startedJobs' = Append(startedJobs, Head(queue))
    /\ UNCHANGED <<ffmpegOk, lines, lineIdx, dirs, paramVars, disk, catalog,
                   endedHow, remuxLog>>

\* The request issued without waiting for a permit of the semaphore
Acquire_NoWait(i) ==
    /\ jobPc = "gather"
    /\ tasks[i] = "waiting"
    /\ permits' = permits - 1
    /\ tasks' = [tasks EXCEPT ![i] = "inflight"]
    /\ UNCHANGED <<mainVars, paramVars, job, jobPc, segment, segment_files,
                   completed, disk, histVars>>

\* download_segment_async, line 119: enter the semaphore
Acquire(i) ==
    /\ jobPc = "gather"
    /\ tasks[i] = "waiting"
    /\ permits > 0
    /\ permits' = permits - 1
    /\ tasks' = [tasks EXCEPT ![i] = "inflight"]
    /\ UNCHANGED <<mainVars, paramVars, job, jobPc, segment, segment_files,
                   completed, disk, histVars>>

\* The file opened for writing before the status is looked at: a non-200
\* answer leaves an empty file
Respond_TouchOnMissing(i) ==
    /\ jobPc = "gather"
    /\ tasks[i] = "inflight"
    /\ permits' = permits + 1
    /\ completed' = Append(completed, i)
    /\ \E outcome \in Outcomes(i) :
          /\ tasks' = [tasks EXCEPT ![i] = outcome]
          /\ \/ /\ outcome = "ok"
                /\ disk' = Put(disk, file_name(job.video_id, i),
                               Body(SegmentUrl(job.video_id, i)))
             \/ /\ outcome = "missing"
                /\ disk' = Put(disk, file_name(job.video_id, i), <<>>)
             \/ /\ outcome = "errored"
                /\ disk' = disk
             \/ /\ outcome = "ioerror"
                /\ \/ disk' = disk
                   \/ disk' = Put(disk, file_name(job.video_id, i),
                                  Partial(SegmentUrl(job.video_id, i)))
    /\ UNCHANGED <<mainVars, paramVars, job, jobPc, segment, segment_files,
                   histVars>>

\* download_segment_async, lines 120-141: the request ends, the semaphore
\* is left and, on status 200, the file is written.
Respond(i) ==
    /\ jobPc = "gather"
    /\ tasks[i] = "inflight"
    /\ permits' = permits + 1
    /\ completed' = Append(completed, i)
    /\ \E outcome \in Outcomes(i) :
          /\ tasks' = [tasks EXCEPT ![i] = outcome]
          /\ \/ /\ outcome = "ok"
                /\ disk' = Put(disk, file_name(job.video_id, i),
                               Body(SegmentUrl(job.video_id, i)))
             \/ /\ outcome \in {"missing", "errored"}
                /\ disk' = disk
             \/ /\ outcome = "ioerror"
                /\ \/ disk' = disk
                   \/ disk' = Put(disk, file_name(job.video_id, i),
                                  Partial(SegmentUrl(job.video_id, i)))
    /\ UNCHANGED <<mainVars, paramVars, job, jobPc, segment, segment_files,
                   histVars>>

\* A fetch counted as completed as soon as it has entered the semaphore
Completed_Started(t) == t # "waiting"

Completed(t) == t \notin {"waiting", "inflight"}

\* asyncio.as_completed instead of gather: the values in completion order
Results_AsCompleted ==
    [k \in 1..batch_size |->
        SegmentResult(job.video_id, completed[k], tasks[completed[k]])]

\* asyncio.gather(*tasks): the returned values in the order of the tasks
Results ==
    [k \in 1..batch_size |->
        SegmentResult(job.video_id, segment + k - 1, tasks[segment + k - 1])]

\* download_all_segments, lines 153-163 and, when the loop goes on, 149-152
Drain ==
    /\ jobPc = "gather"
    /\ \A i \in BatchRange(segment, batch_size) : Completed(tasks[i])
    /\ LET accepted == Walk(Results)
       IN  /\ segment_files' = segment_files \o accepted
           /\ segment' = NextSegment(segment, accepted)
           /\ IF Stop(Results)
              THEN /\ jobPc' = "sequenced"
                   /\ tasks' = tasks
                   /\ completed' = completed
              ELSE /\ jobPc' = "gather"
                   /\ tasks' = Dispatch(segment')
                   /\ completed' = <<>>
    /\ UNCHANGED <<mainVars, paramVars, job, permits, disk, histVars>>

EndJob(how) ==
    /\ jobPc' = "idle"
    /\ mainPc' = AfterJob(how)
    /\ endedHow' = Append(endedHow, how)

\* download_video_async, lines 173-175
AbortEmpty ==
    /\ jobPc = "sequenced"
    /\ ShouldAbort(segment_files)
    /\ EndJob("no_content")
    /\ completed' = <<>>
    /\ UNCHANGED <<ffmpegOk, lines, lineIdx, dirs, queue, paramVars, job,
                   segment, segment_files, tasks, permits, disk, catalog,
                   startedJobs, remuxLog>>

\* download_video_async, lines 177-185
WriteManifest ==
    /\ jobPc = "sequenced"
    /\ ~ShouldAbort(segment_files)
    /\ disk' = Put(disk, list_file, ManifestContent(segment_files))
    /\ jobPc' = "ffmpeg"
    /\ completed' = <<>>
    /\ UNCHANGED <<mainVars, paramVars, job, segment, segment_files, tasks,
                   permits, histVars>>

RemuxEntry(exit) ==
    [job |-> Len(startedJobs), manifest |-> disk[list_file],
     output |-> output_file(job.video_title, job.folder_name), exit |-> exit]

\* download_video_async, lines 188-191 and 195-196: ffmpeg exits 0
FfmpegSucceeds ==
    /\ jobPc = "ffmpeg"
    /\ remuxLog' = Append(remuxLog, RemuxEntry(0))
    /\ disk' = Remove(Put(disk, output_file(job.video_title, job.folder_name),
                          Concat(disk, disk[list_file])),
                      {list_file})
    /\ jobPc' = "cleanup"
    /\ UNCHANGED <<mainVars, paramVars, job, seqVars, catalog, startedJobs,
                   endedHow>>

\* The removal of segments.txt placed after the try statement instead of
\* in its finally clause: the return of line 194 skips it
FfmpegFails_NoFinally ==
    /\ jobPc = "ffmpeg"
    /\ remuxLog' = Append(remuxLog, RemuxEntry(1))
    /\ \/ disk' = disk
       \/ disk' = Put(disk, output_file(job.video_title, job.folder_name),
                      <<"partial">>)
    /\ EndJob("remux_failed")
    /\ UNCHANGED <<ffmpegOk, lines, lineIdx, dirs, queue, paramVars, job,
                   seqVars, catalog, startedJobs>>

\* download_video_async, lines 188-190 and 192-196: ffmpeg exits non-zero,
\* having written a part of the output file or nothing.
FfmpegFails ==
    /\ jobPc = "ffmpeg"
    /\ remuxLog' = Append(remuxLog, RemuxEntry(1))
    /\ \/ disk' = Remove(disk, {list_file})
       \/ disk' = Remove(Put(disk,
                             output_file(job.video_title, job.folder_name),
                             <<"partial">>),
                         {list_file})
    /\ EndJob("remux_failed")
    /\ UNCHANGED <<ffmpegOk, lines, lineIdx, dirs, queue, paramVars, job,
                   seqVars, catalog, startedJobs>>

\* download_video_async, lines 198-204
RemoveSegments ==
    /\ jobPc = "cleanup"
    /\ disk' = Remove(disk, {segment_files[i] : i \in 1..Len(segment_files)})
    /\ EndJob("created")
    /\ UNCHANGED <<ffmpegOk, lines, lineIdx, dirs, queue, paramVars, job,
                   seqVars, catalog, startedJobs, remuxLog>>

Next ==
    \/ EnsureFfmpeg
    \/ OpenInput
    \/ SkipBlankLine
    \/ LoadCollection
    \/ LoadCommentary
    \/ Finish
    \/ StartJob
    \/ \E i \in DOMAIN tasks : Acquire(i)
    \/ \E i \in DOMAIN tasks : Respond(i)
    \/ Drain
    \/ AbortEmpty
    \/ WriteManifest
    \/ FfmpegSucceeds
    \/ FfmpegFails
    \/ RemoveSegments

Spec == Init /\ [][Next]_vars

\* Fairness: asyncio.run drives every ready coroutine, every request ends
\* within its timeout of 10 seconds, and main is a plain sequential loop.
FairSpec == Spec /\ WF_vars(Next)

\* ------------------------------------------------------- shared vocabulary
Failed(t) == t \in {"missing", "errored", "ioerror"}

\* download_all_segments of the last started Job has returned.
Returned ==
    \/ jobPc \in {"sequenced", "ffmpeg", "cleanup"}
    \/ jobPc = "idle" /\ startedJobs # <<>>

\* The Job has ended: download_video_async has returned.
Ended == jobPc = "idle" /\ startedJobs # <<>>

\* The least index whose fetch was missing or errored.
IsFirstFailed(k) ==
    /\ k \in DOMAIN tasks
    /\ Failed(tasks[k])
    /\ \A i \in 1..(k - 1) : i \in DOMAIN tasks /\ tasks[i] = "ok"

\* The paths of the indices 1..n of the Job's video.
PrefixPaths(n) == [i \in 1..n |-> file_name(job.video_id, i)]

\* The path a line of the manifest names, as ffmpeg reads it.
ManifestPath(line) == SubSeq(line, 2, Len(line) - 1)

ThisJobRemux ==
    {e \in 1..Len(remuxLog) : remuxLog[e].job = Len(startedJobs)}

\* The completion order of the last batch is not the index order.
OutOfOrder ==
    \E a, b \in 1..Len(completed) : a < b /\ completed[a] > completed[b]

\* ------------------------------------------------------------------ C1
\* C1: when chunks 1..N answered 200 and chunk N+1 answered non-200,
\* download_all_segments returns exactly N paths, the path of index i at
\* position i, whatever the order in which the fetches completed.
C1_OrderedPrefix ==
    Returned =>
        \A n \in 0..MaxChunks :
            ( /\ \A i \in 1..n : i \in DOMAIN tasks /\ tasks[i] = "ok"
              /\ (n + 1) \in DOMAIN tasks
              /\ tasks[n + 1] = "missing" )
            => /\ Len(segment_files) = n
               /\ \A i \in 1..n :
                     segment_files[i] = file_name(job.video_id, i)

C1_Witness ==
    /\ Returned
    /\ OutOfOrder
    /\ Len(segment_files) > batch_size
    /\ \A i \in 1..Len(segment_files) : tasks[i] = "ok"
    /\ tasks[Len(segment_files) + 1] = "missing"

VideoFile(i) == file_name(job.video_id, i)
VideoBody(i) == Body(SegmentUrl(job.video_id, i))
OutputFile == output_file(job.video_title, job.folder_name)
Last(q) == q[Len(q)]

\* ------------------------------------------------------------------ C2
\* C2: when the fetch of index 1 is missing or errored, the result list is
\* empty and the Job ends as "no content": no manifest is written, ffmpeg
\* is not invoked and no output file exists, whatever the other fetches of
\* the first batch did.
C2_FirstMissingAborts ==
    (1 \in DOMAIN tasks /\ Failed(tasks[1])) =>
        /\ segment_files = <<>>
        /\ jobPc \in {"gather", "sequenced", "idle"}
        /\ ~Exists(disk, list_file)
        /\ ThisJobRemux = {}
        /\ ~Exists(disk, OutputFile)
        /\ Ended => (Len(endedHow) = Len(startedJobs)
                        /\ Last(endedHow) = "no_content")

C2_Witness ==
    /\ Ended
    /\ Failed(tasks[1])
    /\ \E i \in DOMAIN tasks : tasks[i] = "ok"
    /\ Last(endedHow) = "no_content"

\* ------------------------------------------------------------------ C3
\* C3 (as claimed): once the assembly step of a Job has finished, with the
\* remux succeeded or failed, no segment file this Job wrote and no
\* manifest is left on disk.
C3_NoTempFilesLeft ==
    (Ended /\ Last(endedHow) \in {"created", "remux_failed"}) =>
        /\ ~Exists(disk, list_file)
        /\ \A i \in DOMAIN tasks :
              ~( /\ Exists(disk, VideoFile(i))
                 /\ disk[VideoFile(i)] \in
                        {VideoBody(i), Partial(SegmentUrl(job.video_id, i))} )

\* ------------------------------------------------------------------ C4
ManifestInOrder(m) ==
    /\ Len(m) = Len(segment_files)
    /\ \A i \in 1..Len(m) :
          /\ m[i][1] = "file '"
          /\ ManifestPath(m[i]) = abspath(segment_files[i])
          /\ segment_files[i] = VideoFile(i)
    /\ \A i, j \in 1..Len(m) : i # j => m[i] # m[j]

\* C4: the manifest ffmpeg is given names exactly the paths the sequencer
\* returned, the path of index i on line i, each once; and the output of a
\* successful remux is the bodies of the chunks 1..n in that order.
C4_ManifestOrdered ==
    /\ jobPc = "ffmpeg" => ManifestInOrder(disk[list_file])
    /\ \A e \in ThisJobRemux : ManifestInOrder(remuxLog[e].manifest)
    /\ jobPc = "cleanup" =>
          disk[OutputFile] = [i \in 1..Len(segment_files) |-> VideoBody(i)]

C4_Witness ==
    /\ jobPc = "cleanup"
    /\ Len(segment_files) = MaxChunks
    /\ ThisJobRemux # {}

\* ------------------------------------------------------------------ C5
\* C5: at the start of every batch the cursor is 1 + the number of paths
\* collected, the fetches created so far are exactly those of the indices
\* 1..cursor + batch_size - 1, every index below the cursor was accepted
\* as the path at its own position, and when all MaxChunks chunks exist
\* the result is exactly their MaxChunks paths in order.
C5_BatchBoundary ==
    /\ jobPc = "gather" =>
          /\ segment = 1 + Len(segment_files)
          /\ DOMAIN tasks = 1..(segment + batch_size - 1)
          /\ \A i \in 1..(segment - 1) : tasks[i] = "ok"
          /\ segment_files = PrefixPaths(segment - 1)
    /\ (Returned /\ \A i \in 1..MaxChunks :
                       i \in DOMAIN tasks /\ tasks[i] = "ok")
          => segment_files = PrefixPaths(MaxChunks)

C5_Witness ==
    /\ Returned
    /\ batch_size > 1
    /\ batch_size < MaxChunks
    /\ Len(segment_files) = MaxChunks
    /\ segment = MaxChunks + 1

\* ------------------------------------------------------------------ C6
NotListed(p) ==
    /\ \A i \in 1..Len(segment_files) : segment_files[i] # p
    /\ \A e \in ThisJobRemux :
          \A i \in 1..Len(remuxLog[e].manifest) :
              ManifestPath(remuxLog[e].manifest[i]) # abspath(p)
    /\ jobPc = "ffmpeg" =>
          \A i \in 1..Len(disk[list_file]) :
              ManifestPath(disk[list_file][i]) # abspath(p)

\* C6: whatever the outcomes of the fetches, the result is the paths of
\* the indices 1..k-1 for the least index k whose fetch was missing or
\* errored (a request or write that raised counts like a non-200 status),
\* and no index at or above k is in the result or in a manifest, even when
\* its fetch succeeded.
C6_StopsAtFirstFailure ==
    Returned =>
        \E k \in DOMAIN tasks :
            /\ IsFirstFailed(k)
            /\ segment_files = PrefixPaths(k - 1)
            /\ \A i \in DOMAIN tasks : i >= k => NotListed(VideoFile(i))

C6_Witness ==
    /\ Returned
    /\ \E k \in DOMAIN tasks :
          /\ IsFirstFailed(k)
          /\ tasks[k] = "errored"
          /\ \E i \in DOMAIN tasks : i > k /\ tasks[i] = "ok"

\* ------------------------------------------------------------------ C7
\* C7: a Job that ends with an empty sequence or with a failed remux does
\* not abort the run: main keeps every catalog entry it obtained either
\* started or queued, returns only when all lines are taken and nothing is
\* queued, and once in its loop it eventually gets there, so every catalog
\* entry eventually has its Job started whatever the earlier outcomes.
C7_EveryEntryStarts ==
    /\ [](startedJobs \o queue = catalog)
    /\ [](mainPc = "done" => queue = <<>> /\ lineIdx = Len(lines))
    /\ (mainPc \in {"loop", "job"}) ~> (mainPc = "done")

C7_Witness ==
    /\ Len(startedJobs) = 2
    /\ endedHow # <<>>
    /\ endedHow[1] \in {"no_content", "remux_failed"}
    /\ jobPc = "gather"

\* ------------------------------------------------------------------ C8
\* C8: when ensure_ffmpeg returned False main has returned at once: no
\* line was taken, no page fetched, no Job started, no fetch created, no
\* folder made and nothing written.
C8_NoFfmpegNoRun ==
    ffmpegOk = "no" =>
        /\ mainPc = "exit_no_ffmpeg"
        /\ lineIdx = 0
        /\ catalog = <<>>
        /\ queue = <<>>
        /\ startedJobs = <<>>
        /\ tasks = NoTasks
        /\ remuxLog = <<>>
        /\ dirs = {}
        /\ disk = EmptyDisk

C8_Witness == ffmpegOk = "no" /\ mainPc = "exit_no_ffmpeg"

\* ------------------------------------------------------------------ C9
\* C9 (as claimed): after a remux that exited non-zero the Job has ended
\* with every segment file of the manifest deleted and with no output
\* file under the final name.
C9_FailedRemuxCleansUp ==
    (Ended /\ Last(endedHow) = "remux_failed") =>
        /\ \A i \in 1..Len(segment_files) : ~Exists(disk, segment_files[i])
        /\ ~Exists(disk, OutputFile)

\* ------------------------------------------------------------------ C10
\* C10 (as claimed): two fetches of different (video_id, index) pairs never
\* have the same local path.
C10_UniqueLocalPath ==
    \A a, b \in 1..Len(startedJobs) :
        \A i, j \in 1..batch_size :
            <<startedJobs[a].video_id, i>> # <<startedJobs[b].video_id, j>>
                => file_name(startedJobs[a].video_id, i)
                       # file_name(startedJobs[b].video_id, j)

\* ------------------------------------------------------------------ C11
\* C11: a fetch that answers 200 leaves at its local path a file holding
\* the response bytes alone, whatever the path held before, and touches no
\* other file: the disk is the one a run without the old file would leave.
C11_OverwritesStale ==
    [][\A i \in DOMAIN tasks :
          ( /\ jobPc = "gather"
            /\ tasks[i] = "inflight"
            /\ i \in DOMAIN tasks'
            /\ tasks'[i] = "ok" )
          => /\ DOMAIN disk' = (DOMAIN disk) \cup {VideoFile(i)}
             /\ disk'[VideoFile(i)] = VideoBody(i)
             /\ \A q \in DOMAIN disk :
                   q # VideoFile(i) => disk'[q] = disk[q]]_vars

\* The second Job has fetched index 1 over the file of index 1 that the
\* first Job, whose remux failed, left behind.
C11_Witness ==
    /\ Len(startedJobs) = 2
    /\ endedHow = <<"remux_failed">>
    /\ jobPc = "gather"
    /\ tasks[1] = "ok"
    /\ Exists(disk, VideoFile(1))
    /\ disk[VideoFile(1)] = VideoBody(1)
    /\ disk[VideoFile(1)] # Body(SegmentUrl(startedJobs[1].video_id, 1))

\* ------------------------------------------------------------------ C12
\* What the two lines of CommentaryInput must give: the id is the last
\* segment of the URL, the folder is the one named on the line or that
\* last segment.
CommentaryExpected ==
    << [video_id |-> <<"m">>, folder |-> <<"m">>,
        plain |-> <<"m", "/", "m", ".ts">>,
        output |-> <<"m", "/", "m", ".ts">>],
       [video_id |-> <<"n">>, folder |-> <<"d", ":">>,
        plain |-> <<"d", ":", "/", "d", ":", ".ts">>,
        output |-> <<"d", ":", "/", "d", " ", "-", " ", ".ts">>] >>

OneJobPerCommentary ==
    /\ Len(catalog) = lineIdx
    /\ \A k \in 1..Len(catalog) :
          /\ catalog[k].video_id = CommentaryExpected[k].video_id
          /\ catalog[k].video_title = CommentaryExpected[k].folder
          /\ catalog[k].folder_name = CommentaryExpected[k].folder

Finished(t) == t = "ok" \/ Failed(t)
Pending(t) == t \in {"waiting", "inflight"}

\* C13: the batches are separated by a barrier. A path is appended to the
\* result list only when every fetch of the batch has completed; fetches
\* of a next batch are created only when every fetch created so far has
\* succeeded; fetches are pending only while the batch is gathered; and
\* once a batch with a missing or errored fetch is drained the Job creates
\* no further fetch.
C13_BatchBarrier ==
    /\ [](jobPc # "gather" => \A i \in DOMAIN tasks : ~Pending(tasks[i]))
    /\ [][/\ (jobPc = "gather" /\ segment_files' # segment_files)
                => \A i \in BatchRange(segment, batch_size) :
                       Finished(tasks[i])
          /\ (jobPc = "gather" /\ DOMAIN tasks' # DOMAIN tasks)
                => /\ \A i \in DOMAIN tasks : tasks[i] = "ok"
                   /\ Len(segment_files') = segment + batch_size - 1
          /\ (jobPc # "gather" /\ startedJobs' = startedJobs)
                => tasks' = tasks]_vars

\* In the second batch one fetch has succeeded and waits, not yet
\* appended, for another that is still pending.
C13_Witness ==
    /\ jobPc = "gather"
    /\ segment > 1
    /\ tasks[segment] = "ok"
    /\ Len(segment_files) = segment - 1
    /\ \E j \in BatchRange(segment, batch_size) : Pending(tasks[j])

\* ------------------------------------------------------------------ C14
InFlight == {i \in DOMAIN tasks : tasks[i] = "inflight"}

\* C14: at most max_concurrent, and at most batch_size, requests are in
\* flight; every request in flight holds one permit of the semaphore and
\* every fetch that has ended, with whatever outcome, has given its permit
\* back.
C14_BoundedInFlight ==
    /\ Cardinality(InFlight) <= max_concurrent
    /\ Cardinality(InFlight) <= batch_size
    /\ permits >= 0
    /\ startedJobs # <<>> =>
          permits + Cardinality(InFlight) = max_concurrent
    /\ InFlight \subseteq BatchRange(segment, batch_size)

\* Fewer permits than fetches in the batch: a fetch that failed has given
\* its permit back and the fetch that waited for it holds it now.
C14_Witness ==
    /\ jobPc = "gather"
    /\ max_concurrent < batch_size
    /\ permits = 0
    /\ Cardinality(InFlight) = max_concurrent
    /\ \E i \in BatchRange(segment, batch_size) : Failed(tasks[i])

\* ------------------------------------------------------------------ C15
\* C15: Jobs run one after another, in catalog order. At most one Job is
\* started and not ended, and main is inside sync_download_video exactly
\* then; a Job is started only when the one before it has ended, with no
\* fetch pending and no manifest on disk, and it is the next catalog entry.
C15_JobsSequential ==
    /\ []( /\ Len(endedHow) <= Len(startedJobs)
           /\ Len(startedJobs) <= Len(endedHow) + 1
           /\ (jobPc # "idle") <=> (Len(startedJobs) = Len(endedHow) + 1)
           /\ (jobPc # "idle") <=> (mainPc = "job")
           /\ Len(startedJobs) <= Len(catalog)
           /\ \A k \in 1..Len(startedJobs) : startedJobs[k] = catalog[k] )
    /\ [][startedJobs' # startedJobs =>
             /\ jobPc = "idle"
             /\ Len(endedHow) = Len(startedJobs)
             /\ \A i \in DOMAIN tasks : ~Pending(tasks[i])
             /\ ~Exists(disk, list_file)
             /\ Len(startedJobs') = Len(startedJobs) + 1]_vars

\* The second entry of a page is being fetched after the first Job ended.
C15_Witness ==
    /\ lines = CourseInput
    /\ Len(startedJobs) = 2
    /\ endedHow = <<"created">>
    /\ jobPc = "gather"
    /\ InFlight # {}

\* ------------------------------------------------------------------ C16
\* C16: some index of every stream is unavailable (none above MaxChunks
\* answers 200) and every request ends, so download_all_segments, once
\* called, eventually returns; the cursor never passes the first
\* unavailable index, so at most MaxChunks \div batch_size + 1 batches are
\* dispatched.
C16_SequencerReturns ==
    /\ [](segment <= MaxChunks + 1)
    /\ [](jobPc = "gather" =>
             (segment - 1) \div batch_size <= MaxChunks \div batch_size)
    /\ (jobPc = "gather") ~> (jobPc = "sequenced")

\* Returned in a later batch than the first, on a request that raised.
C16_Witness ==
    /\ jobPc = "sequenced"
    /\ segment > batch_size
    /\ \E i \in BatchRange(segment, batch_size) : tasks[i] = "errored"

\* ------------------------------------------------------------------ C17
\* C17: a fetch whose status is not 200 or whose request raised returns
\* None and leaves the whole disk as it was; a fetch returns a path only
\* when the status was 200 and the write succeeded, the path is that of
\* its index and the file there then holds the response bytes.
C17_FailedFetchLeavesDisk ==
    [][\A i \in DOMAIN tasks :
          ( /\ jobPc = "gather"
            /\ tasks[i] = "inflight"
            /\ i \in DOMAIN tasks' )
          => LET res == SegmentResult(job.video_id, i, tasks'[i])
             IN  /\ tasks'[i] \in {"missing", "errored"}
                    => (res = None /\ disk' = disk)
                 /\ tasks'[i] = "ok" => res = VideoFile(i)
                 /\ res # None
                    => /\ tasks'[i] = "ok"
                       /\ Exists(disk', res)
                       /\ disk'[res] = VideoBody(i)]_vars

\* The second Job's fetch of index 1 answered non-200 and the file of
\* index 1 left by the first Job is still what the first Job wrote.
C17_Witness ==
    /\ Len(startedJobs) = 2
    /\ endedHow = <<"remux_failed">>
    /\ tasks[1] = "missing"
    /\ Exists(disk, VideoFile(1))
    /\ disk[VideoFile(1)] = Body(SegmentUrl(startedJobs[1].video_id, 1))

\* ------------------------------------------------------------------ C18
\* C18: every batch starts at an index 1 + m * batch_size, the fetches
\* created are those of whole batches, and when k is the least index whose
\* fetch was missing or errored no fetch was created for an index at or
\* above k + batch_size.
C18_OverFetchBounded ==
    /\ jobPc = "gather" => (segment - 1) % batch_size = 0
    /\ \E m \in 0..(MaxChunks + 1) : DOMAIN tasks = 1..(m * batch_size)
    /\ \A k \in DOMAIN tasks :
          IsFirstFailed(k) =>
              \A i \in DOMAIN tasks : i < k + batch_size

\* The sequence ended at the first index of a later batch, whose other
\* indices were fetched too.
C18_Witness ==
    /\ Returned
    /\ batch_size > 1
    /\ \E k \in DOMAIN tasks :
          /\ IsFirstFailed(k)
          /\ k > batch_size
          /\ (k + batch_size - 1) \in DOMAIN tasks

\* ------------------------------------------------------------------ C19
\* The relative path of an absolute path below the working directory.
RelPath(abs) == SubSeq(abs, Len(Cwd) + 2, Len(abs))

\* C19: from the return of the sequencer to the end of the remux, every
\* path of the result list, and every path named in the manifest, is a
\* file that holds the bytes of this Job's video at that index, also when
\* an earlier Job left segment files behind.
C19_ManifestFilesOwn ==
    /\ jobPc \in {"sequenced", "ffmpeg", "cleanup"} =>
          \A i \in 1..Len(segment_files) :
              /\ Exists(disk, segment_files[i])
              /\ disk[segment_files[i]] = VideoBody(i)
    /\ jobPc = "ffmpeg" =>
          \A i \in 1..Len(disk[list_file]) :
              LET p == RelPath(ManifestPath(disk[list_file][i]))
              IN  /\ Exists(disk, p)
                  /\ disk[p] = VideoBody(i)

\* The second Job is about to be remuxed while a segment file written by
\* the first Job, whose remux failed, is still on disk.
C19_Witness ==
    /\ Len(startedJobs) = 2
    /\ endedHow = <<"remux_failed">>
    /\ jobPc = "ffmpeg"
    /\ \E i \in 1..MaxChunks :
          /\ Exists(disk, VideoFile(i))
          /\ disk[VideoFile(i)] =
                 Body(SegmentUrl(startedJobs[1].video_id, i))

\* ------------------------------------------------------------------ C20
\* C20: segments.txt exists only between its writing and the end of the
\* ffmpeg run; the step that ends the run, with exit 0 or not, removes it,
\* and no Job starts with it on disk.
C20_ManifestRemoved ==
    /\ [](Exists(disk, list_file) => jobPc = "ffmpeg")
    /\ [][/\ (jobPc = "ffmpeg" /\ jobPc' # "ffmpeg")
                => (Exists(disk, list_file) /\ ~Exists(disk', list_file))
          /\ startedJobs' # startedJobs
                => (~Exists(disk, list_file)
                       /\ ~Exists(disk', list_file))]_vars

\* Two Jobs have been remuxed, one with a non-zero and one with a zero
\* exit, and no manifest is on disk.
C20_Witness ==
    /\ Len(remuxLog) = 2
    /\ remuxLog[1].exit # remuxLog[2].exit
    /\ Len(endedHow) = 2
    /\ ~Exists(disk, list_file)
====
